---------------------------- MODULE Spec2Model ----------------------------
(***************************************************************************)
(* A model of src/src/App.js: the RGB<->HSL and RGB<->CIE L*a*b*           *)
(* converters, the correction delta, the per-pixel correction, the        *)
(* buffer-wide pass of drawOutput and the React component's handlers.     *)
(*                                                                         *)
(* JavaScript Numbers are modelled as fixed-point decimals with eight      *)
(* fractional digits: a Number is <<i, f1, f2>> and stands for             *)
(* i + f1/Base + f2/Base^2 with f1, f2 in 0..Base-1 and i any integer.     *)
(* Every decimal literal of the source has at most eight fractional       *)
(* digits and is represented exactly; products and quotients are           *)
(* truncated towards minus infinity at the eighth digit.                   *)
(***************************************************************************)
EXTENDS Integers, Sequences, FiniteSets, TLC

\* ------------------------------------------------------------ Numbers

Base == 10000

\* <<i, a, b>> with a, b of any size brought to the normal form.
Norm(i, a, b) ==
    LET a1 == a + (b \div Base)
    IN  <<i + (a1 \div Base), a1 % Base, b % Base>>

\* The integer n as a Number.
Num(n) == <<n, 0, 0>>

\* The decimal literal w.dddddddd: whole part w, d the eight fractional digits.
Dec(w, d) == <<w, d \div Base, d % Base>>

\* x + y
Add(x, y) == Norm(x[1] + y[1], x[2] + y[2], x[3] + y[3])

\* x - y
Sub(x, y) == Norm(x[1] - y[1], x[2] - y[2], x[3] - y[3])

\* x * y
Mul(x, y) ==
    LET low == (x[2] * y[3] + x[3] * y[2] + ((x[3] * y[3]) \div Base)) \div Base
    IN  Norm(x[1] * y[1],
             x[1] * y[2] + y[1] * x[2],
             x[1] * y[3] + y[1] * x[3] + x[2] * y[2] + low)

\* -x
Neg(x) == Norm(-x[1], -x[2], -x[3])

\* x * k for an integer k, |k| <= 100000
MulInt(x, k) == Norm(x[1] * k, x[2] * k, x[3] * k)

\* x / d for an integer d in 1..200000
DivInt(x, d) ==
    LET q1 == x[1] \div d
        r1 == x[1] % d
        q2 == (r1 * Base + x[2]) \div d
        r2 == (r1 * Base + x[2]) % d
        q3 == (r2 * Base + x[3]) \div d
    IN  Norm(q1, q2, q3)

\* n / d for integers n and d, d in 1..200000
Ratio(n, d) == DivInt(Num(n), d)

\* x / (n/d): the division by a decimal literal n/d
DivDec(x, n, d) == DivInt(MulInt(x, d), n)

\* x < y
Lt(x, y) ==
    \/ x[1] < y[1]
    \/ x[1] = y[1] /\ x[2] < y[2]
    \/ x[1] = y[1] /\ x[2] = y[2] /\ x[3] < y[3]

\* x > y
Gt(x, y) == Lt(y, x)

\* Math.max and Math.min of two Numbers
Max2(x, y) == IF Lt(x, y) THEN y ELSE x
Min2(x, y) == IF Lt(y, x) THEN y ELSE x

\* Math.floor(x), an integer
Floor(x) == x[1]

\* Math.round(x): the nearest integer, a tie going up.
MathRound(x) == Floor(Add(x, Dec(0, 50000000)))

\* F(v) with v evaluated before F is entered, as JavaScript evaluates the
\* operand of an expression before the expression.
With(v, F(_)) == [w \in {v} |-> F(w)][v]

\* y^n for n >= 1, by squaring
RECURSIVE Pow(_, _)
Pow(y, n) ==
    IF n = 1 THEN y
    ELSE IF n % 2 = 0 THEN With(Pow(y, n \div 2), LAMBDA h : Mul(h, h))
    ELSE With(Pow(y, n - 1), LAMBDA h : Mul(h, y))

\* The units of the eight fractional digits of a Number, the largest first.
Units ==
    << <<0, 1000, 0>>, <<0, 100, 0>>, <<0, 10, 0>>, <<0, 1, 0>>,
       <<0, 0, 1000>>, <<0, 0, 100>>, <<0, 0, 10>>, <<0, 0, 1>> >>

\* Whether y^n <= x
PowLe(y, n, x) == ~Lt(x, Pow(y, n))

\* lo with its digit of unit u: the largest d in 0..9 with (lo + d*u)^n <= x,
\* found by halving 0..9, for lo^n <= x.
Digit(x, n, lo, u) ==
    LET ok(d) == PowLe(Add(lo, MulInt(u, d)), n, x)
        d     == IF ok(5)
                 THEN IF ok(7) THEN IF ok(8) THEN IF ok(9) THEN 9 ELSE 8 ELSE 7
                      ELSE IF ok(6) THEN 6 ELSE 5
                 ELSE IF ok(3) THEN IF ok(4) THEN 4 ELSE 3
                      ELSE IF ok(2) THEN 2 ELSE IF ok(1) THEN 1 ELSE 0
    IN  Add(lo, MulInt(u, d))

\* The largest Number y with k fractional digits and y^n <= x, for
\* 0 < x < 2^n: the integer part, then one decimal digit at a time.
RECURSIVE Root(_, _, _)
Root(x, n, k) ==
    IF k = 0 THEN Num(IF Lt(x, Num(1)) THEN 0 ELSE 1)
    ELSE With(Root(x, n, k - 1), LAMBDA lo : Digit(x, n, lo, Units[k]))

\* Math.pow(x, num/den) for x > 0: the den-th root raised to the power num.
MathPow(x, num, den) == With(Root(x, den, Len(Units)), LAMBDA root : Pow(root, num))


\* ------------------------------------------------------- RGB <-> HSL

Max3(a, b, c) == IF a >= b /\ a >= c THEN a ELSE IF b >= c THEN b ELSE c
Min3(a, b, c) == IF a <= b /\ a <= c THEN a ELSE IF b <= c THEN b ELSE c

\* A faulty rgbToHsl with the hue offsets of lines 38 and 41 exchanged.
rgbToHslSwapped(r, g, b) ==
    LET max == Max3(r, g, b)
        min == Min3(r, g, b)
        l   == DivInt(Add(Ratio(max, 255), Ratio(min, 255)), 2)
        d   == max - min
        s   == IF Gt(l, Dec(0, 50000000))
               THEN Ratio(d, 2 * 255 - max - min)
               ELSE Ratio(d, max + min)
        h6  == IF max = r
               THEN Add(Ratio(g - b, d), Num(IF g < b THEN 6 ELSE 0))
               ELSE IF max = g
               THEN Add(Ratio(b - r, d), Num(4))
               ELSE Add(Ratio(r - g, d), Num(2))
    IN  IF max = min
        THEN <<Num(0), Num(0), l>>
        ELSE <<DivInt(h6, 6), s, l>>

\* rgbToHsl(r, g, b) for integer channels. The source divides each channel by
\* 255 first; a quotient of two channel differences, such as (g - b) / d, has
\* the 255 cancelled and is taken as Ratio(g - b, max - min) of the integers.
rgbToHsl(r, g, b) ==
    LET max == Max3(r, g, b)
        min == Min3(r, g, b)
        l   == DivInt(Add(Ratio(max, 255), Ratio(min, 255)), 2)
        d   == max - min
        s   == IF Gt(l, Dec(0, 50000000))
               THEN Ratio(d, 2 * 255 - max - min)
               ELSE Ratio(d, max + min)
        h6  == IF max = r
               THEN Add(Ratio(g - b, d), Num(IF g < b THEN 6 ELSE 0))
               ELSE IF max = g
               THEN Add(Ratio(b - r, d), Num(2))
               ELSE Add(Ratio(r - g, d), Num(4))
    IN  IF max = min
        THEN <<Num(0), Num(0), l>>
        ELSE <<DivInt(h6, 6), s, l>>

\* Lines 69-70 of hue2rgb: t after the two conditional assignments
Wrap(t) ==
    LET t1 == IF Lt(t, Num(0)) THEN Add(t, Num(1)) ELSE t
    IN  IF Gt(t1, Num(1)) THEN Sub(t1, Num(1)) ELSE t1

\* hue2rgb(p, q, t), the helper inside hslToRgb
hue2rgb(p, q, t) ==
    LET t2 == Wrap(t)
    IN  IF Lt(t2, Ratio(1, 6))
        THEN Add(p, Mul(MulInt(Sub(q, p), 6), t2))
        ELSE IF Lt(t2, Ratio(1, 2))
        THEN q
        ELSE IF Lt(t2, Ratio(2, 3))
        THEN Add(p, MulInt(Mul(Sub(q, p), Sub(Ratio(2, 3), t2)), 6))
        ELSE p

\* hslToRgb(h, s, l): three Numbers, neither rounded nor clamped
hslToRgb(h, s, l) ==
    IF s = Num(0)
    THEN <<MulInt(l, 255), MulInt(l, 255), MulInt(l, 255)>>
    ELSE LET q == IF Lt(l, Dec(0, 50000000))
                  THEN Mul(l, Add(Num(1), s))
                  ELSE Sub(Add(l, s), Mul(l, s))
             p == Sub(MulInt(l, 2), q)
         IN  <<MulInt(hue2rgb(p, q, Add(h, Ratio(1, 3))), 255),
               MulInt(hue2rgb(p, q, h), 255),
               MulInt(hue2rgb(p, q, Sub(h, Ratio(1, 3))), 255)>>

\* ------------------------------------------------------- RGB <-> Lab

\* The inverse sRGB companding of one channel c in [0, 1] (lines 93-95)
Linear(c) ==
    IF Gt(c, Dec(0, 4045000))
    THEN MathPow(DivDec(Add(c, Dec(0, 5500000)), 1055, 1000), 12, 5)
    ELSE DivDec(c, 1292, 100)

\* The Lab nonlinearity of lines 101-103
LabF(t) ==
    IF Gt(t, Dec(0, 885600))
    THEN MathPow(t, 1, 3)
    ELSE Add(Mul(Dec(7, 78700000), t), Ratio(16, 116))

\* rgbToLab(r, g, b) for integer channels: the linear channels of lines
\* 93-95, X, Y, Z of lines 97-99 through LabF, then L, a, b of lines 105-109.
rgbToLab(r, g, b) ==
    With(<<Linear(Ratio(r, 255)), Linear(Ratio(g, 255)), Linear(Ratio(b, 255))>>,
      LAMBDA c :
    With(<<LabF(DivDec(Add(Add(Mul(c[1], Dec(0, 41240000)), Mul(c[2], Dec(0, 35760000))),
                           Mul(c[3], Dec(0, 18050000))), 95047, 100000)),
           LabF(DivDec(Add(Add(Mul(c[1], Dec(0, 21260000)), Mul(c[2], Dec(0, 71520000))),
                           Mul(c[3], Dec(0, 7220000))), 100000, 100000)),
           LabF(DivDec(Add(Add(Mul(c[1], Dec(0, 1930000)), Mul(c[2], Dec(0, 11920000))),
                           Mul(c[3], Dec(0, 95050000))), 108883, 100000))>>,
      LAMBDA f :
        <<Sub(MulInt(f[2], 116), Num(16)),
          MulInt(Sub(f[1], f[2]), 500),
          MulInt(Sub(f[2], f[3]), 200)>>))

\* The inverse of the Lab nonlinearity (lines 118-120), before the white point
LabFInv(t) ==
    LET t3 == Mul(Mul(t, t), t)
    IN  IF Gt(t3, Dec(0, 885600))
        THEN t3
        ELSE DivDec(Sub(t, Ratio(16, 116)), 7787, 1000)

\* A faulty Gamma that leaves out the - 0.055 of lines 126-128.
GammaNoOffset(c) ==
    IF Gt(c, Dec(0, 313080))
    THEN Mul(Dec(1, 5500000), MathPow(c, 5, 12))
    ELSE Mul(Dec(12, 92000000), c)

\* The sRGB companding of one linear channel (lines 126-128)
Gamma(c) ==
    IF Gt(c, Dec(0, 313080))
    THEN Sub(Mul(Dec(1, 5500000), MathPow(c, 5, 12)), Dec(0, 5500000))
    ELSE Mul(Dec(12, 92000000), c)

\* A faulty RoundClamp without Math.max and Math.min.
RoundNoClamp(c) == MathRound(MulInt(c, 255))

\* Math.round(Math.max(0, Math.min(1, c)) * 255) of lines 131-133
RoundClamp(c) == MathRound(MulInt(Max2(Num(0), Min2(Num(1), c)), 255))

\* labToRgb(cl, ca, cb): three integers in 0..255, given as Numbers. X, Y, Z
\* of lines 113-120, the linear channels of lines 122-124, the companding of
\* lines 126-128 and the rounding of lines 131-133.
labToRgb(cl, ca, cb) ==
    With(DivInt(Add(cl, Num(16)), 116), LAMBDA y0 :
    With(<<Mul(Dec(0, 95047000), LabFInv(Add(DivInt(ca, 500), y0))),
           Mul(Dec(1, 0), LabFInv(y0)),
           Mul(Dec(1, 8883000), LabFInv(Sub(y0, DivInt(cb, 200))))>>,
      LAMBDA c :
    With(<<Gamma(Add(Add(Mul(c[1], Dec(3, 24060000)), Mul(c[2], Neg(Dec(1, 53720000)))),
                     Mul(c[3], Neg(Dec(0, 49860000))))),
           Gamma(Add(Add(Mul(c[1], Neg(Dec(0, 96890000))), Mul(c[2], Dec(1, 87580000))),
                     Mul(c[3], Dec(0, 4150000)))),
           Gamma(Add(Add(Mul(c[1], Dec(0, 5570000)), Mul(c[2], Neg(Dec(0, 20400000)))),
                     Mul(c[3], Dec(1, 5700000))))>>,
      LAMBDA v :
        <<Num(RoundClamp(v[1])), Num(RoundClamp(v[2])), Num(RoundClamp(v[3]))>>)))


\* ------------------------------------------- correction of one pixel

\* A faulty colorCorrection that subtracts the wrong way round.
colorCorrectionSwapped(sel, tgt, space) ==
    With(IF space = "cielab" THEN rgbToLab(sel[1], sel[2], sel[3])
         ELSE rgbToHsl(sel[1], sel[2], sel[3]),
      LAMBDA hslStart :
    With(IF space = "cielab" THEN rgbToLab(tgt[1], tgt[2], tgt[3])
         ELSE rgbToHsl(tgt[1], tgt[2], tgt[3]),
      LAMBDA hslEnd :
        <<Sub(hslStart[1], hslEnd[1]),
          Sub(hslStart[2], hslEnd[2]),
          Sub(hslStart[3], hslEnd[3])>>))

\* colorCorrection(selectedColor, targetColor, colorSpace): the delta
colorCorrection(sel, tgt, space) ==
    With(IF space = "cielab" THEN rgbToLab(sel[1], sel[2], sel[3])
         ELSE rgbToHsl(sel[1], sel[2], sel[3]),
      LAMBDA hslStart :
    With(IF space = "cielab" THEN rgbToLab(tgt[1], tgt[2], tgt[3])
         ELSE rgbToHsl(tgt[1], tgt[2], tgt[3]),
      LAMBDA hslEnd :
        <<Sub(hslEnd[1], hslStart[1]),
          Sub(hslEnd[2], hslStart[2]),
          Sub(hslEnd[3], hslStart[3])>>))

\* The pixel in the colour space with the delta added (lines 269-274)
Corrected(r, g, b, corr, space) ==
    With(IF space = "cielab" THEN rgbToLab(r, g, b) ELSE rgbToHsl(r, g, b),
      LAMBDA color :
        <<Add(color[1], corr[1]), Add(color[2], corr[2]), Add(color[3], corr[3])>>)

\* A faulty applyCorrection that does not add the delta.
applyCorrectionNoDelta(r, g, b, corr, space) ==
    With(IF space = "cielab" THEN rgbToLab(r, g, b) ELSE rgbToHsl(r, g, b),
      LAMBDA color :
        IF space = "cielab"
        THEN labToRgb(color[1], color[2], color[3])
        ELSE hslToRgb(color[1], color[2], color[3]))

\* applyCorrection(r, g, b, correction, colorSpace): three Numbers
applyCorrection(r, g, b, corr, space) ==
    With(Corrected(r, g, b, corr, space), LAMBDA corrected :
        IF space = "cielab"
        THEN labToRgb(corrected[1], corrected[2], corrected[3])
        ELSE hslToRgb(corrected[1], corrected[2], corrected[3]))

\* ------------------------------------------------ the pass of drawOutput

\* The store of a Number into ImageData.data, a Uint8ClampedArray: clamped to
\* 0..255 and rounded to the nearest integer, a tie going to the even one.
ToUint8Clamped(v) ==
    IF Lt(v, Num(0)) THEN 0
    ELSE IF Gt(v, Num(255)) THEN 255
    ELSE LET f    == Floor(v)
             frac == Sub(v, Num(f))
             half == Dec(0, 50000000)
         IN  IF Lt(frac, half) THEN f
             ELSE IF Gt(frac, half) THEN f + 1
             ELSE IF f % 2 = 0 THEN f ELSE f + 1

\* The test of line 296 on sum = R + G + B
Background(sum) == sum < 20 \/ sum > 256 * 3 - 20

\* Whether the iteration at byte offset i takes the continue of line 297
Skipped(d, i) == Background(d[i + 1] + d[i + 2] + d[i + 3])

\* A faulty PixelStep that stores one byte too far and so overwrites alpha.
PixelStepShifted(d, i, corr, space) ==
    IF Skipped(d, i) THEN d
    ELSE With(applyCorrection(d[i + 1], d[i + 2], d[i + 3], corr, space),
           LAMBDA corrected :
             [d EXCEPT ![i + 2] = ToUint8Clamped(corrected[1]),
                       ![i + 3] = ToUint8Clamped(corrected[2]),
                       ![i + 4] = ToUint8Clamped(corrected[3])])

\* A faulty PixelStep that corrects the colour of the first pixel of the
\* buffer instead of the pixel's own.
PixelStepFirst(d, i, corr, space) ==
    IF Skipped(d, i) THEN d
    ELSE With(applyCorrection(d[1], d[2], d[3], corr, space),
           LAMBDA corrected :
             [d EXCEPT ![i + 1] = ToUint8Clamped(corrected[1]),
                       ![i + 2] = ToUint8Clamped(corrected[2]),
                       ![i + 3] = ToUint8Clamped(corrected[3])])

\* One iteration of the loop of lines 293-305 at byte offset i (0-based)
PixelStep(d, i, corr, space) ==
    IF Skipped(d, i) THEN d
    ELSE With(applyCorrection(d[i + 1], d[i + 2], d[i + 3], corr, space),
           LAMBDA corrected :
             [d EXCEPT ![i + 1] = ToUint8Clamped(corrected[1]),
                       ![i + 2] = ToUint8Clamped(corrected[2]),
                       ![i + 3] = ToUint8Clamped(corrected[3])])

\* The loop of lines 293-305 from offset i to the end of the buffer
RECURSIVE Loop(_, _, _, _)
Loop(d, i, corr, space) ==
    IF i < Len(d) THEN Loop(PixelStep(d, i, corr, space), i + 4, corr, space)
    ELSE d

\* A faulty drawOutput that puts the corrected pixels on the input canvas too.
drawOutputInPlace(inp, sel, tgt, space) ==
    With(Loop(inp, 0, colorCorrection(sel, tgt, space), space),
      LAMBDA out : [input |-> out, output |-> out])

\* drawOutput(selectedColor, targetColor, colorSpace) on the input canvas inp:
\* getImageData hands out a copy, putImageData writes the output canvas only.
drawOutput(inp, sel, tgt, space) ==
    [input  |-> inp,
     output |-> Loop(inp, 0, colorCorrection(sel, tgt, space), space)]

\* getColorAtCursor(event) for the pixel x (0-based) under the cursor, read
\* from the input canvas inp
getColorAtCursor(inp, x) == <<inp[4 * x + 1], inp[4 * x + 2], inp[4 * x + 3]>>


\* ------------------------------------------------------------- state

VARIABLES
    img,            \* the decoded picture ./cog.png, as RGBA bytes
    loaded,         \* whether img.onload has run
    inputCanvas,    \* the pixels of the input canvas, RGBA bytes
    outputCanvas,   \* the pixels of the output canvas, RGBA bytes
    hoveredColor,   \* useState hoveredColor
    selectedColor,  \* useState selectedColor
    targetColor,    \* useState targetColor
    colorSpace,     \* useState colorSpace
    pc,             \* the position of the operation being stepped
    data,           \* imageData.data of a pass in progress
    i,              \* the loop index of line 293
    correction,     \* the delta of line 284
    todo,           \* the byte offsets of the pixels a pass has still to visit
    touched,        \* the byte offsets of the pixels a pass has assigned
    pixel,          \* an RGB triple given to a converter or to applyCorrection
    converted,      \* the colour in the colour space
    result,         \* the RGB a converter or applyCorrection returns
    stored          \* the three bytes read back after the stores of lines 302-304

vars == <<img, loaded, inputCanvas, outputCanvas, hoveredColor, selectedColor,
          targetColor, colorSpace, pc, data, i, correction, todo, touched,
          pixel, converted, result, stored>>

appVars  == <<img, loaded, inputCanvas, outputCanvas, hoveredColor,
              selectedColor, targetColor, colorSpace>>
passVars == <<pc, data, i, correction, todo, touched>>
fnVars   == <<pixel, converted, result, stored>>

\* ------------------------------------------------------------ inputs

\* The number of pixels of a canvas (the source's canvases are 538 x 536).
NPixels == 3

\* The number of steps between the sampled channel values 0 and 255.
NLevels == 5

ColorSpaces == {"hsl", "cielab"}

InitialSelected == <<30, 99, 151>>
InitialTarget   == <<168, 6, 64>>
InitialHovered  == <<255, 255, 255>>

\* The RGBA pixels pictures are made of: the colours of the initial state,
\* black, white, the sums on both sides of the two thresholds of line 296 and
\* of the sum 765 - 20, two reds on either side of hue 0, a grey and
\* translucent pixels.
Palette ==
    << <<30, 99, 151, 255>>,  <<249, 249, 248, 200>>, <<6, 6, 7, 255>>,
       <<250, 20, 40, 255>>,  <<0, 0, 0, 255>>,       <<248, 248, 249, 255>>,
       <<255, 30, 0, 255>>,   <<250, 250, 249, 255>>, <<7, 7, 6, 128>>,
       <<168, 6, 64, 255>>,   <<255, 255, 255, 255>>, <<250, 249, 249, 77>>,
       <<200, 200, 200, 255>> >>

\* The colours tried as selected and as target colour.
Colors ==
    {InitialSelected, InitialTarget, <<255, 30, 0>>, <<250, 20, 40>>,
     <<30, 30, 30>>, <<160, 160, 160>>}

\* The colours the two colour pickers hand to onChange.
PickerColors == {<<250, 20, 40>>, <<160, 160, 160>>}

\* The picture of NPixels pixels that starts at entry k of the palette.
Picture(k) ==
    [j \in 1..(4 * NPixels) |->
        Palette[((k + ((j - 1) \div 4) - 1) % Len(Palette)) + 1][((j - 1) % 4) + 1]]

Pictures == {Picture(k) : k \in 1..Len(Palette)}

\* The picture the component loads.
Cog == Picture(1)

\* A canvas right after its creation: transparent black.
Blank == [j \in 1..(4 * NPixels) |-> 0]

\* The byte offsets of the pixels of a buffer d, and the pixel at offset k.
Offsets(d) == {4 * k : k \in 0..((Len(d) \div 4) - 1)}
Rgb(d, k)  == <<d[k + 1], d[k + 2], d[k + 3]>>

\* The positions of the cursor over a canvas, as pixel numbers.
Cursor == 0..(NPixels - 1)

\* The sampled channel values and RGB triples of the converters.
Levels  == {(k * 255) \div NLevels : k \in 0..NLevels}
Samples == Levels \X Levels \X Levels

Zero3 == <<Num(0), Num(0), Num(0)>>

PassIdle ==
    /\ pc = "idle" /\ data = <<>> /\ i = 0 /\ correction = Zero3
    /\ todo = {} /\ touched = {}

FnIdle ==
    /\ pixel = <<0, 0, 0>> /\ converted = Zero3 /\ result = Zero3
    /\ stored = <<0, 0, 0>>

\* ------------------------------------------- the component App (Spec)

\* The effect of lines 242-244: drawOutput with the state of the new render.
Redraw(inp, sel, tgt, space) ==
    LET r == drawOutput(inp, sel, tgt, space)
    IN  /\ inputCanvas' = r.input
        /\ outputCanvas' = r.output

\* The state after the first render and its two effects: the picture is
\* requested and drawOutput has run on the blank input canvas.
Init ==
    /\ img = Cog
    /\ loaded = FALSE
    /\ inputCanvas = Blank
    /\ outputCanvas = drawOutput(Blank, InitialSelected, InitialTarget, "hsl").output
    /\ hoveredColor = InitialHovered
    /\ selectedColor = InitialSelected
    /\ targetColor = InitialTarget
    /\ colorSpace = "hsl"
    /\ PassIdle
    /\ FnIdle

\* img.onload of lines 235-239: drawImage, then the effect of the new
\* selectedColor array
ImgOnload ==
    /\ ~loaded
    /\ loaded' = TRUE
    /\ selectedColor' = InitialSelected
    /\ Redraw(img, selectedColor', targetColor, colorSpace)
    /\ UNCHANGED <<img, hoveredColor, targetColor, colorSpace>>
    /\ UNCHANGED <<passVars, fnVars>>

\* onClick of the input canvas (lines 338-341) at pixel x, then the effect
ClickInput(x) ==
    /\ selectedColor' = getColorAtCursor(inputCanvas, x)
    /\ Redraw(inputCanvas, selectedColor', targetColor, colorSpace)
    /\ UNCHANGED <<img, loaded, hoveredColor, targetColor, colorSpace>>
    /\ UNCHANGED <<passVars, fnVars>>

\* onClick of the output canvas (line 348) at pixel x, then the effect:
\* getColorAtCursor reads canvasInputRef
ClickOutput(x) ==
    /\ selectedColor' = getColorAtCursor(inputCanvas, x)
    /\ Redraw(inputCanvas, selectedColor', targetColor, colorSpace)
    /\ UNCHANGED <<img, loaded, hoveredColor, targetColor, colorSpace>>
    /\ UNCHANGED <<passVars, fnVars>>

\* onMouseMove of the input canvas (line 337): no dependency of the effect
\* changes, so nothing is redrawn
MouseMoveInput(x) ==
    /\ hoveredColor' = getColorAtCursor(inputCanvas, x)
    /\ UNCHANGED <<img, loaded, inputCanvas, outputCanvas, selectedColor,
                   targetColor, colorSpace>>
    /\ UNCHANGED <<passVars, fnVars>>

\* onMouseMove of the output canvas (line 347)
MouseMoveOutput(x) ==
    /\ hoveredColor' = getColorAtCursor(inputCanvas, x)
    /\ UNCHANGED <<img, loaded, inputCanvas, outputCanvas, selectedColor,
                   targetColor, colorSpace>>
    /\ UNCHANGED <<passVars, fnVars>>

\* onChange of the target colour picker (lines 317-320), then the effect
ChangeTarget(c) ==
    /\ targetColor' = c
    /\ Redraw(inputCanvas, selectedColor, targetColor', colorSpace)
    /\ UNCHANGED <<img, loaded, hoveredColor, selectedColor, colorSpace>>
    /\ UNCHANGED <<passVars, fnVars>>

\* onChange of the selected colour picker (lines 322-325), then the effect
ChangeSelected(c) ==
    /\ selectedColor' = c
    /\ Redraw(inputCanvas, selectedColor', targetColor, colorSpace)
    /\ UNCHANGED <<img, loaded, hoveredColor, targetColor, colorSpace>>
    /\ UNCHANGED <<passVars, fnVars>>

\* onChange of the select (line 327) to another option v, then the effect
ChangeColorSpace(v) ==
    /\ v # colorSpace
    /\ colorSpace' = v
    /\ Redraw(inputCanvas, selectedColor, targetColor, colorSpace')
    /\ UNCHANGED <<img, loaded, hoveredColor, selectedColor, targetColor>>
    /\ UNCHANGED <<passVars, fnVars>>

Next ==
    \/ ImgOnload
    \/ \E x \in Cursor : ClickInput(x)
    \/ \E x \in Cursor : ClickOutput(x)
    \/ \E x \in Cursor : MouseMoveInput(x)
    \/ \E x \in Cursor : MouseMoveOutput(x)
    \/ \E c \in PickerColors : ChangeTarget(c)
    \/ \E c \in PickerColors : ChangeSelected(c)
    \/ \E v \in ColorSpaces : ChangeColorSpace(v)

Spec == Init /\ [][Next]_vars

\* ------------------------- drawOutput step by step (SpecDriver)

\* A loaded picture, a selected colour that is one of the picture's own or
\* the initial one, a target colour and a colour space; drawOutput is about
\* to run.
InitDriver ==
    /\ img \in Pictures
    /\ loaded = TRUE
    /\ inputCanvas = img
    /\ outputCanvas = Blank
    /\ hoveredColor = InitialHovered
    /\ selectedColor \in {InitialSelected} \cup {Rgb(img, k) : k \in Offsets(img)}
    /\ targetColor \in Colors
    /\ colorSpace \in ColorSpaces
    /\ pc = "start" /\ data = <<>> /\ i = 0 /\ correction = Zero3
    /\ todo = {} /\ touched = {}
    /\ FnIdle

\* Lines 284-293: the delta, the copy of the input canvas, i = 0
DriverBegin ==
    /\ pc = "start"
    /\ correction' = colorCorrection(selectedColor, targetColor, colorSpace)
    /\ data' = inputCanvas
    /\ i' = 0
    /\ todo' = Offsets(inputCanvas)
    /\ touched' = {}
    /\ pc' = "loop"
    /\ UNCHANGED <<appVars, fnVars>>

\* Lines 293-305: the iteration at i, then i += 4
DriverStep ==
    /\ pc = "loop"
    /\ i < Len(data)
    /\ data' = PixelStep(data, i, correction, colorSpace)
    /\ touched' = IF Skipped(data, i) THEN touched ELSE touched \cup {i}
    /\ todo' = todo \ {i}
    /\ i' = i + 4
    /\ UNCHANGED <<pc, correction, appVars, fnVars>>

\* Line 306, once the loop has left: putImageData on the output canvas
DriverEnd ==
    /\ pc = "loop"
    /\ ~(i < Len(data))
    /\ outputCanvas' = data
    /\ pc' = "done"
    /\ UNCHANGED <<img, loaded, inputCanvas, hoveredColor, selectedColor,
                   targetColor, colorSpace>>
    /\ UNCHANGED <<data, i, correction, todo, touched, fnVars>>

NextDriver == DriverBegin \/ DriverStep \/ DriverEnd

SpecDriver == InitDriver /\ [][NextDriver]_vars

\* ------------------- the pixels of a pass in any order (SpecAnyOrder)

InitAnyOrder ==
    /\ img \in Pictures
    /\ loaded = TRUE
    /\ inputCanvas = img
    /\ outputCanvas = Blank
    /\ hoveredColor = InitialHovered
    /\ selectedColor = InitialSelected
    /\ targetColor \in {InitialTarget, <<250, 20, 40>>}
    /\ colorSpace \in ColorSpaces
    /\ pc = "start" /\ data = <<>> /\ i = 0 /\ correction = Zero3
    /\ todo = {} /\ touched = {}
    /\ FnIdle

\* The iteration of lines 294-304 for the pixel at offset k, any pixel that
\* is still to do: a worker's step.
AnyStep(k) ==
    /\ pc = "loop"
    /\ k \in todo
    /\ data' = PixelStep(data, k, correction, colorSpace)
    /\ touched' = IF Skipped(data, k) THEN touched ELSE touched \cup {k}
    /\ todo' = todo \ {k}
    /\ UNCHANGED <<pc, i, correction, appVars, fnVars>>

\* putImageData once no pixel is left
AnyEnd ==
    /\ pc = "loop"
    /\ todo = {}
    /\ outputCanvas' = data
    /\ pc' = "done"
    /\ UNCHANGED <<img, loaded, inputCanvas, hoveredColor, selectedColor,
                   targetColor, colorSpace>>
    /\ UNCHANGED <<data, i, correction, todo, touched, fnVars>>

NextAnyOrder ==
    \/ DriverBegin
    \/ \E k \in Offsets(inputCanvas) : AnyStep(k)
    \/ AnyEnd

SpecAnyOrder == InitAnyOrder /\ [][NextAnyOrder]_vars

\* -------------- colorCorrection and applyCorrection on one pixel (SpecFn)

InitFn ==
    /\ img = Blank
    /\ loaded = FALSE
    /\ inputCanvas = Blank
    /\ outputCanvas = Blank
    /\ hoveredColor = InitialHovered
    /\ selectedColor \in Colors
    /\ targetColor \in Colors
    /\ colorSpace \in ColorSpaces
    /\ pc = "start" /\ data = <<>> /\ i = 0 /\ correction = Zero3
    /\ todo = {} /\ touched = {}
    /\ pixel \in {<<Palette[k][1], Palette[k][2], Palette[k][3]>> : k \in 1..Len(Palette)}
    /\ converted = Zero3 /\ result = Zero3 /\ stored = <<0, 0, 0>>

\* Line 284
FnDelta ==
    /\ pc = "start"
    /\ correction' = colorCorrection(selectedColor, targetColor, colorSpace)
    /\ pc' = "delta"
    /\ UNCHANGED <<appVars, data, i, todo, touched, fnVars>>

\* Line 300: applyCorrection; converted is its local corrected
FnApply ==
    /\ pc = "delta"
    /\ converted' = Corrected(pixel[1], pixel[2], pixel[3], correction, colorSpace)
    /\ result' = applyCorrection(pixel[1], pixel[2], pixel[3], correction, colorSpace)
    /\ pc' = "applied"
    /\ UNCHANGED <<appVars, data, i, correction, todo, touched, pixel, stored>>

\* Lines 302-304: the three stores into the Uint8ClampedArray
FnStore ==
    /\ pc = "applied"
    /\ stored' = <<ToUint8Clamped(result[1]), ToUint8Clamped(result[2]),
                   ToUint8Clamped(result[3])>>
    /\ pc' = "stored"
    /\ UNCHANGED <<appVars, data, i, correction, todo, touched, pixel,
                   converted, result>>

NextFn == FnDelta \/ FnApply \/ FnStore

SpecFn == InitFn /\ [][NextFn]_vars

\* ------------------------- a converter and its inverse (SpecConv)

InitConv ==
    /\ img = Blank
    /\ loaded = FALSE
    /\ inputCanvas = Blank
    /\ outputCanvas = Blank
    /\ hoveredColor = InitialHovered
    /\ selectedColor = InitialSelected
    /\ targetColor = InitialTarget
    /\ colorSpace \in ColorSpaces
    /\ pc = "start" /\ data = <<>> /\ i = 0 /\ correction = Zero3
    /\ todo = {} /\ touched = {}
    /\ pixel \in Samples
    /\ converted = Zero3 /\ result = Zero3 /\ stored = <<0, 0, 0>>

\* rgbToHsl or rgbToLab of the pixel
ConvForward ==
    /\ pc = "start"
    /\ converted' = IF colorSpace = "cielab"
                    THEN rgbToLab(pixel[1], pixel[2], pixel[3])
                    ELSE rgbToHsl(pixel[1], pixel[2], pixel[3])
    /\ pc' = "forward"
    /\ UNCHANGED <<appVars, data, i, correction, todo, touched, pixel, result, stored>>

\* hslToRgb or labToRgb of what the first converter returned
ConvBackward ==
    /\ pc = "forward"
    /\ result' = IF colorSpace = "cielab"
                 THEN labToRgb(converted[1], converted[2], converted[3])
                 ELSE hslToRgb(converted[1], converted[2], converted[3])
    /\ pc' = "back"
    /\ UNCHANGED <<appVars, data, i, correction, todo, touched, pixel, converted, stored>>

NextConv == ConvForward \/ ConvBackward

SpecConv == InitConv /\ [][NextConv]_vars

\* ---------------------------------------------------------- properties

\* |a - b| <= 1 for every channel of two integer RGB triples
Within1(a, b) == \A j \in 1..3 : a[j] - b[j] <= 1 /\ b[j] - a[j] <= 1

\* 0 <= v <= 255 for a Number v
InByteRange(v) == ~Lt(v, Num(0)) /\ ~Gt(v, Num(255))

\* 0 <= v <= 1 for a Number v
InUnit(v) == ~Lt(v, Num(0)) /\ ~Gt(v, Num(1))

\* |a - b| < 0.0001 for every channel of two triples of Numbers
Close3(a, b) ==
    \A j \in 1..3 : Lt(Sub(a[j], b[j]), Dec(0, 10000)) /\ Lt(Sub(b[j], a[j]), Dec(0, 10000))

\* h mod 1: the fractional part of a Number
Mod1(h) == <<0, h[2], h[3]>>

\* The colour c in the colour space
InSpace(c, space) ==
    IF space = "cielab" THEN rgbToLab(c[1], c[2], c[3]) ELSE rgbToHsl(c[1], c[2], c[3])

\* The picture on the input canvas as drawImage left it
Original == IF loaded THEN img ELSE Blank

\* C1: once the pass is over, the R, G, B of a pixel were left alone (lines
\* 302-304 did not assign them) if and only if the pixel's sum R + G + B is
\* below 20 or above 745 = 765 - 20.
C1_SkippedIffSumBeyond745 ==
    pc = "done" =>
        \A k \in Offsets(inputCanvas) :
            (k \notin touched) <=>
                (inputCanvas[k + 1] + inputCanvas[k + 2] + inputCanvas[k + 3] < 20
                 \/ inputCanvas[k + 1] + inputCanvas[k + 2] + inputCanvas[k + 3] > 765 - 20)

\* C2: in the colour space HSL, once the pass is over, every pixel whose RGB
\* is the selected colour and which the background test does not skip has the
\* target colour on the output canvas, within 1 per channel.
C2_SelectedMapsToTarget ==
    (pc = "done" /\ colorSpace = "hsl") =>
        \A k \in Offsets(inputCanvas) :
            (Rgb(inputCanvas, k) = selectedColor /\ ~Skipped(inputCanvas, k))
                => Within1(Rgb(outputCanvas, k), targetColor)

\* The example of C2: the pixel (30, 99, 151, 255) with the selected colour
\* (30, 99, 151) and another target colour has become the target colour.
C2_Witness ==
    /\ pc = "done" /\ colorSpace = "hsl"
    /\ selectedColor = <<30, 99, 151>> /\ targetColor = <<168, 6, 64>>
    /\ \E k \in Offsets(inputCanvas) :
        /\ k \in touched
        /\ Rgb(inputCanvas, k) = selectedColor
        /\ Rgb(outputCanvas, k) = targetColor
        /\ outputCanvas[k + 4] = 255

\* C3: during and after a pass, in either colour space, the buffer has the
\* length of the input and the alpha byte of every pixel is the input's,
\* whether the pixel was corrected or skipped; so has the output canvas.
C3_AlphaAndLengthKept ==
    /\ pc \in {"loop", "done"} =>
        /\ Len(data) = Len(inputCanvas)
        /\ \A k \in Offsets(inputCanvas) : data[k + 4] = inputCanvas[k + 4]
    /\ pc = "done" =>
        /\ Len(outputCanvas) = Len(inputCanvas)
        /\ \A k \in Offsets(inputCanvas) : outputCanvas[k + 4] = inputCanvas[k + 4]

\* A pass is over that has corrected a translucent pixel and skipped another
\* pixel.
C3_Witness ==
    /\ pc = "done"
    /\ \E k \in touched :
        /\ inputCanvas[k + 4] < 255
        /\ Rgb(outputCanvas, k) # Rgb(inputCanvas, k)
    /\ \E k \in Offsets(inputCanvas) : k \notin touched

\* C4, as claimed: in both colour spaces every channel of what
\* applyCorrection returns lies in [0, 255].
C4_ResultInByteRange ==
    pc \in {"applied", "stored"} => \A j \in 1..3 : InByteRange(result[j])

\* C4, amended: in the colour space cielab every channel of what
\* applyCorrection returns lies in [0, 255]; in the colour space hsl the
\* result is not clamped, and it is the store into the Uint8ClampedArray that
\* brings every channel into 0..255.
C4_LabClampedHslOnStore ==
    /\ (pc \in {"applied", "stored"} /\ colorSpace = "cielab") =>
        \A j \in 1..3 : InByteRange(result[j])
    /\ pc = "stored" =>
        \A j \in 1..3 :
            /\ stored[j] \in 0..255
            /\ InByteRange(result[j]) =>
                  (stored[j] - 1 <= Floor(result[j]) /\ Floor(result[j]) <= stored[j])
            /\ Gt(result[j], Num(255)) => stored[j] = 255
            /\ Lt(result[j], Num(0)) => stored[j] = 0

\* An hsl correction has returned a channel above 255 and the store has made
\* it 255.
C4_Witness ==
    /\ pc = "stored" /\ colorSpace = "hsl"
    /\ \E j \in 1..3 : Gt(result[j], Num(255)) /\ stored[j] = 255

\* C5: hslToRgb(rgbToHsl(r, g, b)), each channel rounded to the nearest
\* integer, is (r, g, b) within 1 per channel.
C5_HslRoundTrip ==
    (pc = "back" /\ colorSpace = "hsl") =>
        Within1(<<MathRound(result[1]), MathRound(result[2]), MathRound(result[3])>>, pixel)

\* A colour with three different channels has gone through rgbToHsl and
\* hslToRgb.
C5_Witness ==
    /\ pc = "back" /\ colorSpace = "hsl"
    /\ pixel[1] > pixel[3] /\ pixel[3] > pixel[2] /\ pixel[2] > 0
    /\ converted[2] # Num(0)
    /\ MathRound(result[1]) = pixel[1]

\* C6: labToRgb(rgbToLab(r, g, b)) is (r, g, b) exactly.
C6_LabRoundTrip ==
    (pc = "back" /\ colorSpace = "cielab") =>
        result = <<Num(pixel[1]), Num(pixel[2]), Num(pixel[3])>>

\* A colour with three different channels, none of them 0 or 255, has gone
\* through rgbToLab and labToRgb.
C6_Witness ==
    /\ pc = "back" /\ colorSpace = "cielab"
    /\ 0 < pixel[1] /\ pixel[1] < pixel[2] /\ pixel[2] < pixel[3] /\ pixel[3] < 255
    /\ converted # Zero3
    /\ result = <<Num(pixel[1]), Num(pixel[2]), Num(pixel[3])>>

\* C7: in both colour spaces the delta of a colour to itself is (0, 0, 0), and
\* the delta is, component by component, the target colour minus the selected
\* colour, both converted by the converter of the colour space.
C7_DeltaIsDifference ==
    pc = "delta" =>
        /\ selectedColor = targetColor => correction = Zero3
        /\ \A j \in 1..3 :
              correction[j] = Sub(InSpace(targetColor, colorSpace)[j],
                                  InSpace(selectedColor, colorSpace)[j])

\* The delta of a colour to itself has been computed in cielab.
C7_Witness ==
    /\ pc = "delta" /\ colorSpace = "cielab"
    /\ selectedColor = targetColor
    /\ selectedColor # <<30, 30, 30>>
    /\ correction = Zero3

\* C8: for the hue h, -1 < h < 2, that the hsl correction of a pixel hands to
\* hslToRgb with a saturation other than 0, lines 69-70 bring each of
\* h + 1/3, h and h - 1/3 into [0, 1], and hslToRgb(h, s, l) is
\* hslToRgb(h mod 1, s, l).
C8_HueWrapped ==
    (/\ pc = "applied" /\ colorSpace = "hsl"
     /\ converted[2] # Num(0)
     /\ Lt(Num(-1), converted[1]) /\ Lt(converted[1], Num(2))) =>
        /\ InUnit(Wrap(Add(converted[1], Ratio(1, 3))))
        /\ InUnit(Wrap(converted[1]))
        /\ InUnit(Wrap(Sub(converted[1], Ratio(1, 3))))
        /\ Close3(result, hslToRgb(Mod1(converted[1]), converted[2], converted[3]))

\* C9: whatever the order in which the pixels of a pass are taken, the delta
\* is the one of the selected colour, the target colour and the colour space
\* all along, every pixel already taken has the bytes the left-to-right loop
\* gives it, every pixel still to do has the input's; so the buffer put on the
\* output canvas is the one of the left-to-right loop.
C9_AnyOrderSameBuffer ==
    /\ pc \in {"loop", "done"} =>
        /\ correction = colorCorrection(selectedColor, targetColor, colorSpace)
        /\ \A k \in Offsets(inputCanvas) : \A j \in 1..4 :
              data[k + j] =
                  IF k \in todo THEN inputCanvas[k + j]
                  ELSE Loop(inputCanvas, 0, correction, colorSpace)[k + j]
    /\ pc = "done" =>
        outputCanvas = drawOutput(inputCanvas, selectedColor, targetColor, colorSpace).output

\* The last pixel has been corrected while the first one, which will be
\* corrected too, is still to do.
C9_Witness ==
    /\ pc = "loop"
    /\ 0 \in todo /\ ~Skipped(data, 0)
    /\ 4 * (NPixels - 1) \in touched
    /\ Rgb(data, 4 * (NPixels - 1)) # Rgb(inputCanvas, 4 * (NPixels - 1))

\* The state part of C10: the input canvas holds the picture as it was drawn,
\* and the output canvas is the correction of that picture under the current
\* selected colour, target colour and colour space.
OutputIsCorrectionOfOriginal ==
    /\ inputCanvas = Original
    /\ outputCanvas = drawOutput(Original, selectedColor, targetColor, colorSpace).output

\* C10: after every sequence of events the input canvas holds the original
\* picture and the output canvas is its correction under the current state
\* alone; and a click on the output canvas selects a colour of the original
\* picture on the input canvas.
C10_NeverAccumulates ==
    /\ []OutputIsCorrectionOfOriginal
    /\ [][\A x \in Cursor :
            ClickOutput(x) => selectedColor' = getColorAtCursor(Original, x)]_vars

\* Several events later: the picture is loaded, the colour space, the
\* selected colour and the target colour are no longer the initial ones, and
\* the output canvas shows a corrected picture.
C10_Witness ==
    /\ loaded /\ colorSpace = "cielab"
    /\ selectedColor # InitialSelected /\ targetColor # InitialTarget
    /\ hoveredColor # InitialHovered
    /\ outputCanvas # inputCanvas

=============================================================================
